---- MODULE Spec2Model ----
(***************************************************************************)
(* Model of src/src/App.tsx: the App component of PDF-Annotator.           *)
(* State is the component's useState cells; every action is one event      *)
(* handler, run to completion with the state of the latest render (React   *)
(* re-renders and re-registers the listeners between two events).          *)
(***************************************************************************)
EXTENDS Integers, Sequences, FiniteSets, TLC

\* ---- bounds of the model ------------------------------------------------
\* number of uuid() calls (committed Fields) in one session
MaxId == 2
\* cap of pageNumber (the "next" control is unbounded while numPages is undefined)
MaxPageNumber == 2
\* page count of the document reported by onLoadSuccess
DocumentPages == 1

\* ---- values -------------------------------------------------------------
\* a Point is <<x, y>>; null is the empty tuple
null == << >>
\* numPages before onLoadSuccess (useState<number>() without an initial value)
undefined == 0

X(p) == p[1]
Y(p) == p[2]

\* screen positions (clientX, clientY) carried by the mouse events
ClientPoints == { <<0, 1>>, <<1, 201>> }
\* container.getBoundingClientRect(): the page moves on screen when scrolled
BoundingRects == { [left |-> 0, top |-> 0], [left |-> 0, top |-> 1] }
\* ev.target: an element of the page without the class "sb" (the canvas, a
\* rendered Field), a delete control (class "sb", line 58), or null (the DOM
\* typing allows it and the handlers test for it)
Elements == { "page", "sb" }
nullTarget == "null"
EventTargets == Elements \cup { nullTarget }

MouseEvents ==
  [ target : EventTargets, client : ClientPoints, rect : BoundingRects ]
\* commitNewZone reads only ev.target: one position stands for all
MouseUpEvents ==
  { ev \in MouseEvents : ev.client = <<0, 1>> /\ ev.rect = [left |-> 0, top |-> 0] }

VARIABLES
  numPages,     \* line 81
  pageNumber,   \* line 82
  pageRef,      \* line 84: TRUE when the Page element is mounted (non-null)
  firstPoint,   \* line 86
  secondPoint,  \* line 87
  fields,       \* line 89: sequence of [page, id, box, selected]
  uuidCount,    \* number of identifiers uuid() has produced so far
  last          \* history: the handler that ran last and what it saw

vars ==
  << numPages, pageNumber, pageRef, firstPoint, secondPoint, fields,
     uuidCount, last >>

\* ---- pure functions -----------------------------------------------------
Abs(n) == IF n < 0 THEN -n ELSE n

\* lines 14-18
size(box) ==
  LET width  == Abs(X(box.a) - X(box.b))
      height == Abs(Y(box.a) - Y(box.b))
  IN  width * height

\* tooSmall with a digit of the threshold lost
tooSmallLoose(box) == size(box) < 20

\* tooSmall with the threshold itself counted as too small
tooSmallInclusive(box) == size(box) <= 200

\* line 20
tooSmall(box) == size(box) < 200

\* lines 22-27
mousePositionWithinContainer(ev) ==
  LET offsetX == X(ev.client) - ev.rect.left
      offsetY == Y(ev.client) - ev.rect.top
  IN  << offsetX, offsetY >>

\* the class test looking for the other class of the delete control (line 58)
classListContainsSbLeft(target) == target = "sb-left"

\* line 109: (ev.target as HTMLElement).classList.contains('sb')
classListContainsSb(target) == target = "sb"

\* lines 90-92
hasSelectedField == \E i \in 1..Len(fields) : fields[i].selected

\* line 102: uuid() returns an identifier it never returned before
uuid == uuidCount + 1

\* deselectAll written as a filter: the selected Fields are dropped
deselectAllDropSelected(prevFields) ==
  SelectSeq(prevFields, LAMBDA f : ~f.selected)

\* lines 110 and 133: prevFields.map(f => ({...f, selected: false}))
deselectAll(prevFields) ==
  [ i \in 1..Len(prevFields) |-> [ prevFields[i] EXCEPT !.selected = FALSE ] ]

\* selectOnly that leaves the other Fields as they are
selectAlso(prevFields, id) ==
  [ i \in 1..Len(prevFields) |->
      [ prevFields[i] EXCEPT !.selected = (@ \/ prevFields[i].id = id) ] ]

\* lines 181-184: prevFields.map(f => ({...f, selected: f.id === id}))
selectOnly(prevFields, id) ==
  [ i \in 1..Len(prevFields) |->
      [ prevFields[i] EXCEPT !.selected = (prevFields[i].id = id) ] ]

\* remove with the filter inverted
removeOthers(prevFields, id) ==
  SelectSeq(prevFields, LAMBDA f : f.id = id)

\* lines 185-187: prevFields.filter(f => f.id !== id)
remove(prevFields, id) ==
  SelectSeq(prevFields, LAMBDA f : f.id # id)

Min(m, n) == IF m < n THEN m ELSE n
Max(m, n) == IF m < n THEN n ELSE m

\* newField that numbers the Fields by their position in the store
newFieldCountId(page, first, second) ==
  [ page |-> page, id |-> Len(fields) + 1, box |-> [ a |-> first, b |-> second ],
    selected |-> FALSE ]

\* newField that stores the box with a as its top-left corner
newFieldNormalized(page, first, second) ==
  [ page |-> page, id |-> uuid,
    box |-> [ a |-> << Min(X(first), X(second)), Min(Y(first), Y(second)) >>,
              b |-> << Max(X(first), X(second)), Max(Y(first), Y(second)) >> ],
    selected |-> FALSE ]

\* lines 100-105: the Field literal built by commitNewZone
newField(page, first, second) ==
  [ page |-> page, id |-> uuid, box |-> [ a |-> first, b |-> second ],
    selected |-> FALSE ]

\* append that also clears the selection of the Fields already there
appendDeselecting(prevFields, field) ==
  Append([ i \in 1..Len(prevFields) |-> [ prevFields[i] EXCEPT !.selected = FALSE ] ],
         field)

\* lines 98-106: [...prevFields, field]
append(prevFields, field) == Append(prevFields, field)

\* ---- history ------------------------------------------------------------
selectedIds(fs) == { fs[i].id : i \in { j \in 1..Len(fs) : fs[j].selected } }
ids(fs) == { fs[i].id : i \in 1..Len(fs) }

\* the handler that ran last: its event target, the Field it was bound to,
\* the selection and the length of the store it started from, and whether it
\* started with no drag in progress (firstPoint = null)
Seen(op, target, id, sel, len) ==
  [ op |-> op, target |-> target, id |-> id, sel |-> sel, len |-> len,
    idle |-> firstPoint = null ]

\* handlers that neither take an event nor read the store
Ran(op) ==
  [ op |-> op, target |-> "none", id |-> 0, sel |-> {}, len |-> 0, idle |-> TRUE ]

\* ---- initial state ------------------------------------------------------
Init ==
  /\ numPages = undefined
  /\ pageNumber = 1
  /\ pageRef = FALSE
  /\ firstPoint = null
  /\ secondPoint = null
  /\ fields = << >>
  /\ uuidCount = 0
  /\ last = Ran("init")

\* ---- document and page navigation --------------------------------------
\* lines 159-161
onLoadSuccess ==
  /\ numPages = undefined
  /\ numPages' = DocumentPages
  /\ last' = Ran("onLoadSuccess")
  /\ UNCHANGED << pageNumber, pageRef, firstPoint, secondPoint, fields, uuidCount >>

\* line 166: react-pdf mounts the Page (children of Document) once the document
\* is loaded and hands its element to setPageRef
inputRef ==
  /\ numPages # undefined
  /\ pageRef = FALSE
  /\ pageRef' = TRUE
  /\ last' = Ran("inputRef")
  /\ UNCHANGED << numPages, pageNumber, firstPoint, secondPoint, fields, uuidCount >>

\* line 197
firstPage ==
  /\ pageNumber' = 1
  /\ last' = Ran("firstPage")
  /\ UNCHANGED << numPages, pageRef, firstPoint, secondPoint, fields, uuidCount >>

\* line 202
previousPage ==
  /\ pageNumber' = IF pageNumber = 1 THEN 1 ELSE pageNumber - 1
  /\ last' = Ran("previousPage")
  /\ UNCHANGED << numPages, pageRef, firstPoint, secondPoint, fields, uuidCount >>

\* line 210: prev === numPages ? prev : prev + 1 (numPages may be undefined)
nextPage ==
  /\ pageNumber = numPages \/ pageNumber + 1 <= MaxPageNumber
  /\ pageNumber' = IF pageNumber = numPages THEN pageNumber ELSE pageNumber + 1
  /\ last' = Ran("nextPage")
  /\ UNCHANGED << numPages, pageRef, firstPoint, secondPoint, fields, uuidCount >>

\* line 215: setPageNumber(pageNumber)
lastPage ==
  /\ pageNumber' = pageNumber
  /\ last' = Ran("lastPage")
  /\ UNCHANGED << numPages, pageRef, firstPoint, secondPoint, fields, uuidCount >>

\* ---- pointer listeners (registered only while pageRef is set, line 118) --
\* mouseDownListener without the firstPoint test of line 121
mouseDownListenerRestart(ev) ==
  /\ pageRef
  /\ IF ev.target = nullTarget
       THEN UNCHANGED firstPoint
       ELSE firstPoint' = mousePositionWithinContainer(ev)
  /\ last' = Seen("mousedown", ev.target, 0, {}, 0)
  /\ UNCHANGED << numPages, pageNumber, pageRef, secondPoint, fields, uuidCount >>

\* lines 120-125
mouseDownListener(ev) ==
  /\ pageRef
  /\ IF ev.target = nullTarget \/ firstPoint # null
       THEN UNCHANGED firstPoint
       ELSE firstPoint' = mousePositionWithinContainer(ev)
  /\ last' = Seen("mousedown", ev.target, 0, {}, 0)
  /\ UNCHANGED << numPages, pageNumber, pageRef, secondPoint, fields, uuidCount >>

\* mouseMoveListener without the deselection of line 133
mouseMoveListenerKeepSelection(ev) ==
  /\ pageRef
  /\ IF ev.target = nullTarget
       THEN UNCHANGED secondPoint
       ELSE secondPoint' = mousePositionWithinContainer(ev)
  /\ last' = Seen("mousemove", ev.target, 0, selectedIds(fields), 0)
  /\ UNCHANGED << numPages, pageNumber, pageRef, firstPoint, fields, uuidCount >>

\* lines 127-135
mouseMoveListener(ev) ==
  /\ pageRef
  /\ IF ev.target = nullTarget
       THEN UNCHANGED << secondPoint, fields >>
       ELSE /\ secondPoint' = mousePositionWithinContainer(ev)
            /\ IF firstPoint # null /\ hasSelectedField
                 THEN fields' = deselectAll(fields)
                 ELSE UNCHANGED fields
  /\ last' = Seen("mousemove", ev.target, 0, selectedIds(fields), 0)
  /\ UNCHANGED << numPages, pageNumber, pageRef, firstPoint, uuidCount >>

\* commitNewZone whose guard of line 95 tests secondPoint only: a release
\* without a press goes on to the selection branch and the reset
commitNewZoneNoIdleCheck(ev) ==
  /\ pageRef
  /\ last' = Seen("mouseup", ev.target, 0, selectedIds(fields), Len(fields))
  /\ UNCHANGED << numPages, pageNumber, pageRef >>
  /\ IF secondPoint = null
       THEN UNCHANGED << firstPoint, secondPoint, fields, uuidCount >>
       ELSE IF firstPoint # null /\ ~tooSmall([ a |-> firstPoint, b |-> secondPoint ])
         THEN /\ uuidCount < MaxId
              /\ fields' = append(fields, newField(pageNumber, firstPoint, secondPoint))
              /\ uuidCount' = uuidCount + 1
              /\ firstPoint' = null
              /\ secondPoint' = null
         ELSE /\ IF hasSelectedField /\ ev.target # nullTarget
                      /\ ~classListContainsSb(ev.target)
                   THEN fields' = deselectAll(fields)
                   ELSE UNCHANGED fields
              /\ firstPoint' = null
              /\ secondPoint' = null
              /\ UNCHANGED uuidCount

\* lines 94-115
commitNewZone(ev) ==
  /\ pageRef
  /\ last' = Seen("mouseup", ev.target, 0, selectedIds(fields), Len(fields))
  /\ UNCHANGED << numPages, pageNumber, pageRef >>
  /\ IF secondPoint = null \/ firstPoint = null
       THEN UNCHANGED << firstPoint, secondPoint, fields, uuidCount >>
       ELSE IF ~tooSmall([ a |-> firstPoint, b |-> secondPoint ])
         THEN /\ uuidCount < MaxId
              /\ fields' = append(fields, newField(pageNumber, firstPoint, secondPoint))
              /\ uuidCount' = uuidCount + 1
              /\ firstPoint' = null
              /\ secondPoint' = null
         ELSE IF hasSelectedField
           THEN IF ev.target = nullTarget
             THEN UNCHANGED << firstPoint, secondPoint, fields, uuidCount >>
             ELSE /\ IF ~classListContainsSb(ev.target)
                       THEN fields' = deselectAll(fields)
                       ELSE UNCHANGED fields
                  /\ firstPoint' = null
                  /\ secondPoint' = null
                  /\ UNCHANGED uuidCount
           ELSE /\ firstPoint' = null
                /\ secondPoint' = null
                /\ UNCHANGED << fields, uuidCount >>

\* ---- per-Field affordances (lines 173-190) ------------------------------
\* a Field is rendered when it is on the current page (line 175)
rendered(i) == pageRef /\ fields[i].page = pageNumber

\* lines 181-184: click on the rendered Field i
onClick(i) ==
  /\ rendered(i)
  /\ fields' = selectOnly(fields, fields[i].id)
  /\ last' = Seen("onClick", "none", fields[i].id, selectedIds(fields), 0)
  /\ UNCHANGED << numPages, pageNumber, pageRef, firstPoint, secondPoint, uuidCount >>

\* lines 185-187 with 56: the delete control exists only for a selected Field
deleteSelf(i) ==
  /\ rendered(i)
  /\ fields[i].selected
  /\ fields' = remove(fields, fields[i].id)
  /\ last' = Seen("deleteSelf", "none", fields[i].id, selectedIds(fields), 0)
  /\ UNCHANGED << numPages, pageNumber, pageRef, firstPoint, secondPoint, uuidCount >>

\* the same closures invoked for a Field that has been deleted since they were
\* created (id was issued, and is no longer in the store)
staleOnClick(id) ==
  /\ id \notin ids(fields)
  /\ fields' = selectOnly(fields, id)
  /\ last' = Seen("staleOnClick", "none", id, selectedIds(fields), 0)
  /\ UNCHANGED << numPages, pageNumber, pageRef, firstPoint, secondPoint, uuidCount >>

staleDeleteSelf(id) ==
  /\ id \notin ids(fields)
  /\ fields' = remove(fields, id)
  /\ last' = Seen("staleDeleteSelf", "none", id, selectedIds(fields), 0)
  /\ UNCHANGED << numPages, pageNumber, pageRef, firstPoint, secondPoint, uuidCount >>

\* ---- specification ------------------------------------------------------
Next ==
  \/ onLoadSuccess
  \/ inputRef
  \/ firstPage
  \/ previousPage
  \/ nextPage
  \/ lastPage
  \/ \E ev \in MouseEvents : mouseDownListener(ev)
  \/ \E ev \in MouseEvents : mouseMoveListener(ev)
  \/ \E ev \in MouseUpEvents : commitNewZone(ev)
  \/ \E i \in 1..Len(fields) : onClick(i)
  \/ \E i \in 1..Len(fields) : deleteSelf(i)
  \/ \E id \in 1..uuidCount : staleOnClick(id)
  \/ \E id \in 1..uuidCount : staleDeleteSelf(id)

Spec == Init /\ [][Next]_vars

\* ---- properties ---------------------------------------------------------
selected(fs) == { i \in 1..Len(fs) : fs[i].selected }
indexOf(fs, id) == CHOOSE i \in 1..Len(fs) : fs[i].id = id

\* C1: at most one Field of the store is selected, in every reachable state;
\* and right after a click on a rendered Field, that Field is the selected
\* one and every other Field, whatever its page, is deselected.
C1_AtMostOneSelected ==
  /\ Cardinality(selected(fields)) <= 1
  /\ last.op = "onClick" =>
       \A i \in 1..Len(fields) : fields[i].selected <=> fields[i].id = last.id

\* Field B, on one page, was clicked while Field A, on another page, was selected
C1_SelectedOtherOnAnotherPage ==
  /\ last.op = "onClick"
  /\ \E a \in last.sel :
       /\ a # last.id
       /\ a \in ids(fields)
       /\ fields[indexOf(fields, a)].page # fields[indexOf(fields, last.id)].page
       /\ ~fields[indexOf(fields, a)].selected
       /\ fields[indexOf(fields, last.id)].selected

\* C2: every release received while Dragging (firstPoint set) leaves both
\* firstPoint and secondPoint absent (stated here for the releases whose
\* target is resolved, which the claim covers a fortiori).
C2_ReleaseAlwaysIdle ==
  [][ \A ev \in MouseUpEvents :
        (commitNewZone(ev) /\ firstPoint # null /\ ev.target # nullTarget)
          => (firstPoint' = null /\ secondPoint' = null) ]_vars

\* C3: a release while Dragging whose candidate box passes the size test
\* appends exactly one Field at the end of the store: page is the page current
\* at the release, box is {a: firstPoint, b: secondPoint} as they are,
\* selected is false; the Fields before it are untouched.
C3_CommitAppendsField ==
  [][ \A ev \in MouseUpEvents :
        ( /\ commitNewZone(ev)
          /\ firstPoint # null
          /\ secondPoint # null
          /\ ~tooSmall([ a |-> firstPoint, b |-> secondPoint ]) )
          => /\ Len(fields') = Len(fields) + 1
             /\ SubSeq(fields', 1, Len(fields)) = fields
             /\ fields'[Len(fields')].page = pageNumber
             /\ fields'[Len(fields')].box = [ a |-> firstPoint, b |-> secondPoint ]
             /\ fields'[Len(fields')].selected = FALSE ]_vars

\* the second commit of a session, on another page than the first, of a box
\* drawn from the bottom right to the top left
C3_TwoCommitsOnTwoPages ==
  /\ last.op = "mouseup"
  /\ Len(fields) = last.len + 1
  /\ Len(fields) = 2
  /\ fields[1].page # fields[2].page
  /\ fields[2].page = pageNumber
  /\ X(fields[2].box.a) > X(fields[2].box.b)
  /\ Y(fields[2].box.a) > Y(fields[2].box.b)

\* C4: a press accepted while Idle and followed at once by a release (no move
\* in between) never appends a Field.
C4_MotionlessClickAppendsNothing ==
  [][ \A ev \in MouseUpEvents :
        ( /\ commitNewZone(ev)
          /\ last.op = "mousedown"
          /\ last.idle
          /\ last.target # nullTarget )
          => Len(fields') = Len(fields) ]_vars

\* C5: a release while Dragging with a degenerate candidate box (secondPoint
\* absent included), some Field selected and a target that is not a delete
\* control leaves no Field selected.
C5_DegenerateReleaseDeselects ==
  [][ \A ev \in MouseUpEvents :
        ( /\ commitNewZone(ev)
          /\ firstPoint # null
          /\ \/ secondPoint = null
             \/ tooSmall([ a |-> firstPoint, b |-> secondPoint ])
          /\ hasSelectedField
          /\ ev.target = "page" )
          => selected(fields') = {} ]_vars

\* C6 as stated: a drag of area exactly 200 creates no Field on release, and
\* a drag of area 201 creates one.
C6_Area200CreatesNothing ==
  [][ \A ev \in MouseUpEvents :
        ( /\ commitNewZone(ev)
          /\ firstPoint # null
          /\ secondPoint # null )
          => /\ size([ a |-> firstPoint, b |-> secondPoint ]) = 200
                  => Len(fields') = Len(fields)
             /\ size([ a |-> firstPoint, b |-> secondPoint ]) = 201
                  => Len(fields') = Len(fields) + 1 ]_vars

\* C6 as amended: a drag of area exactly 200 is not degenerate and creates a
\* Field on release, as does a drag of area 201; a drag of area 199, one unit
\* below the threshold, is degenerate and creates no Field.
C6_Area199CreatesNothing ==
  [][ \A ev \in MouseUpEvents :
        ( /\ commitNewZone(ev)
          /\ firstPoint # null
          /\ secondPoint # null )
          => /\ size([ a |-> firstPoint, b |-> secondPoint ]) \in { 200, 201 }
                  => /\ Len(fields') = Len(fields) + 1
                     /\ fields'[Len(fields')].box = [ a |-> firstPoint, b |-> secondPoint ]
             /\ size([ a |-> firstPoint, b |-> secondPoint ]) = 199
                  => Len(fields') = Len(fields) ]_vars

\* a release has just committed a box of area exactly 200
C6_CommittedArea200 ==
  /\ last.op = "mouseup"
  /\ Len(fields) = last.len + 1
  /\ size(fields[Len(fields)].box) = 200

\* C7: a move with a resolved target while Dragging, with some Field
\* selected, leaves no Field selected; and the release that follows the move
\* selects nothing, also when it commits nothing.
C7_MoveWhileDraggingDeselects ==
  [][ /\ \A ev \in MouseEvents :
           ( /\ mouseMoveListener(ev)
             /\ ev.target # nullTarget
             /\ firstPoint # null
             /\ hasSelectedField )
             => selected(fields') = {}
      /\ \A ev \in MouseUpEvents :
           ( /\ commitNewZone(ev)
             /\ last.op = "mousemove"
             /\ last.target # nullTarget
             /\ ~last.idle
             /\ last.sel # {} )
             => /\ selected(fields) = {}
                /\ selected(fields') = {} ]_vars

\* a move during a drag has just deselected the selected Field
C7_MoveDeselected ==
  /\ last.op = "mousemove"
  /\ last.target # nullTarget
  /\ ~last.idle
  /\ last.sel # {}
  /\ last.sel \subseteq ids(fields)
  /\ selected(fields) = {}

\* C8: after the delete control of the selected Field has run, that Field is
\* not in the store and no Field is selected.
C8_DeleteSelectedLeavesNoSelection ==
  last.op = "deleteSelf" =>
    /\ last.id \notin ids(fields)
    /\ ~hasSelectedField

\* the selected Field has just been deleted and another Field remains
C8_DeletedSelectedOfTwo ==
  /\ last.op = "deleteSelf"
  /\ last.sel = { last.id }
  /\ Len(fields) = 1

\* C9: no two Fields of the store share an id, every id in the store was
\* produced by uuid(), and the Field a release has just committed carries the
\* newest identifier, one that no Field, deleted or not, was given before.
C9_IdsUnique ==
  /\ \A i, j \in 1..Len(fields) : fields[i].id = fields[j].id => i = j
  /\ ids(fields) \subseteq 1..uuidCount
  /\ (last.op = "mouseup" /\ Len(fields) = last.len + 1)
       => fields[Len(fields)].id = uuidCount

\* a Field has just been committed after an earlier Field was deleted
C9_CommitAfterDelete ==
  /\ last.op = "mouseup"
  /\ Len(fields) = last.len + 1
  /\ Len(fields) < uuidCount

\* C10: the select action invoked with an id that is not in the store changes
\* no Field.
C10_StaleSelectIsNoOp ==
  [][ \A id \in 1..uuidCount : staleOnClick(id) => fields' = fields ]_vars

\* C11: a press, move or release whose target is null changes neither
\* firstPoint, nor secondPoint, nor the Field Store.
C11_NullTargetChangesNothing ==
  [][ \A ev \in MouseEvents :
        ( /\ ev.target = nullTarget
          /\ \/ mouseDownListener(ev)
             \/ mouseMoveListener(ev)
             \/ commitNewZone(ev) )
          => UNCHANGED << firstPoint, secondPoint, fields >> ]_vars

\* C12: whenever numPages is known, the Current Page is in 1..numPages.
C12_PageNumberInRange ==
  numPages # undefined => pageNumber \in 1..numPages

\* C13: a press received while Dragging changes neither firstPoint, nor
\* secondPoint, nor the Field Store.
C13_PressWhileDraggingIgnored ==
  [][ \A ev \in MouseEvents :
        (mouseDownListener(ev) /\ firstPoint # null)
          => UNCHANGED << firstPoint, secondPoint, fields >> ]_vars

\* a press with a resolved target has just been received during a drag that
\* has moved, with a Field in the store
C13_PressedWhileDragging ==
  /\ last.op = "mousedown"
  /\ last.target # nullTarget
  /\ ~last.idle
  /\ firstPoint # null
  /\ secondPoint # null
  /\ Len(fields) >= 1

\* C14: a move received while Idle (firstPoint absent) changes neither
\* firstPoint, nor secondPoint, nor the Field Store, so that secondPoint is
\* never set while firstPoint is absent.
C14_MoveWhileIdleChangesNothing ==
  [][ \A ev \in MouseEvents :
        (mouseMoveListener(ev) /\ firstPoint = null /\ ev.target # nullTarget)
          => UNCHANGED << firstPoint, secondPoint, fields >> ]_vars

\* C15: a release that commits a new Field leaves every Field that was in
\* the store as it was, its selected flag included.
C15_CommitKeepsSelection ==
  [][ \A ev \in MouseUpEvents :
        (commitNewZone(ev) /\ Len(fields') = Len(fields) + 1)
          => \A i \in 1..Len(fields) : fields'[i] = fields[i] ]_vars

\* a release has just committed a Field while another Field was selected,
\* and that Field is still selected
C15_CommittedWithSelection ==
  /\ last.op = "mouseup"
  /\ Len(fields) = last.len + 1
  /\ last.sel # {}
  /\ selectedIds(fields) = last.sel

\* C16: a release whose target is a delete control changes the selected flag
\* of no Field, in any state.
C16_ReleaseOnDeleteControlKeepsSelection ==
  [][ \A ev \in MouseUpEvents :
        (commitNewZone(ev) /\ ev.target = "sb")
          => /\ Len(fields') >= Len(fields)
             /\ \A i \in 1..Len(fields) : fields'[i].selected = fields[i].selected ]_vars

\* a degenerate drag has just been released on the delete control of the
\* selected Field, which is still selected
C16_ReleasedOnDeleteControl ==
  /\ last.op = "mouseup"
  /\ last.target = "sb"
  /\ ~last.idle
  /\ firstPoint = null
  /\ Len(fields) = last.len
  /\ last.sel # {}
  /\ selectedIds(fields) = last.sel

\* the Fields without their selected flags, in store order
core(fs) ==
  [ i \in 1..Len(fs) |-> [ page |-> fs[i].page, id |-> fs[i].id, box |-> fs[i].box ] ]

\* C17: in every step the Fields that stay keep page, id, box and order; the
\* store grows only by one Field at its end in a release, and shrinks only by
\* the Field whose delete control ran.
C17_FieldsOnlyAppendedOrDeleted ==
  [][ \/ core(fields') = core(fields)
      \/ /\ last'.op = "mouseup"
         /\ Len(fields') = Len(fields) + 1
         /\ SubSeq(core(fields'), 1, Len(fields)) = core(fields)
      \/ /\ last'.op = "deleteSelf"
         /\ last'.id \in ids(fields)
         /\ core(fields') = SelectSeq(core(fields), LAMBDA f : f.id # last'.id) ]_vars

\* the first of two Fields has just been deleted and the second one remains
C17_DeletedFirstOfTwo ==
  /\ last.op = "deleteSelf"
  /\ uuidCount = 2
  /\ Len(fields) = 1
  /\ fields[1].id > last.id

\* C18: a release received while Idle (firstPoint absent) changes neither the
\* Field Store nor firstPoint (nor anything else but the history).
C18_ReleaseWhileIdleChangesNothing ==
  [][ \A ev \in MouseUpEvents :
        (commitNewZone(ev) /\ firstPoint = null)
          => UNCHANGED << firstPoint, secondPoint, fields, uuidCount, pageNumber >> ]_vars

\* a release on the page has just been received while Idle, after a move,
\* with a Field selected
C18_ReleasedWhileIdleWithSelection ==
  /\ last.op = "mouseup"
  /\ last.target = "page"
  /\ last.idle
  /\ secondPoint # null
  /\ last.sel # {}
  /\ selectedIds(fields) = last.sel

\* C19: every Field of the store has a box of area at least 200.
C19_StoredBoxesNotDegenerate ==
  \A i \in 1..Len(fields) : size(fields[i].box) >= 200

\* the store holds a box of area exactly 200 and a box of area 201
C19_Boxes200And201 ==
  /\ Len(fields) = 2
  /\ size(fields[1].box) = 200
  /\ size(fields[2].box) = 201

====
